---- MODULE Spec2Model ----
(***************************************************************************)
(* horovod.spark: the rendezvous between run() (the orchestrator), the     *)
(* Spark job thread (the launch context), the N task_fn workers and the    *)
(* external launcher (mpirun).                                             *)
(*                                                                         *)
(* run() and task_fn() are translated from horovod/spark/__init__.py.      *)
(* DriverService, TaskService, Timeout and the launcher are not part of    *)
(* that file; their handlers are modelled from the specification's         *)
(* contracts (sections 3, 4.1, 4.2, 6).                                    *)
(*                                                                         *)
(* Python lists are 0-based; the sequences below are 1-based, so the       *)
(* element for Slot i of a Slot-ordered list is at position i + 1 and      *)
(* rank r is position r + 1 of ranks_to_indices.                           *)
(***************************************************************************)
EXTENDS Integers, Sequences, FiniteSets, TLC

\* ------------------------------------------------------------------ bounds
\* Largest num_proc of the topology specification SpecRank.
MaxN == 4
\* Number of distinct HostIdentity values (host hashes), ordered as integers.
MaxHosts == 3
\* Largest num_proc of the full protocol specification Spec.
MaxProc == 2
\* Largest num_proc of the fault-free specification SpecRun.
MaxRun == 3
MaxLive == 2

Hosts == 1..MaxHosts
\* Hosts the protocol specification places workers on.
ProtoHosts == {h \in Hosts : h <= 2}
\* Network interface names a task service may be reachable on.
Intfs == {"eth0", "lo"}
\* Exit codes of the external launcher: success and a failure.
ExitCodes == {0, 137}

VARIABLES
    \* ---- environment, fixed for one run
    num_proc,          \* N, the num_proc argument of run()
    host_hash,         \* Slot -> HostIdentity: host_hash.host_hash() on that worker
    reach,             \* Slot -> set of interfaces its ring predecessor reaches it on
    deadline_passed,   \* start_timeout_at lies in the past
    \* ---- DriverService (the Driver Registry)
    registered,        \* Slots with an accepted Registration
    task_index_host_hash, \* Slot -> HostIdentity of its Registration, 0 if none
    task_to_task,      \* Slot -> interface names of its PeerAddressRecord (partial)
    driver_ranks,      \* the RankMapping stored by set_ranks_to_indices, <<>> if none
    draining,          \* drain() was called
    driver_shutdowns,  \* number of executions of driver.shutdown()
    spark_job_failed,  \* notify_spark_job_failed() was called
    \* ---- run(): the orchestrator
    pc,                \* position in run()
    loop_idx,          \* position of the running for-loop (notify, interrupt)
    common_intfs,      \* the local common_intfs
    host_hashes,       \* the local host_hashes
    ranks_to_indices,  \* the local ranks_to_indices
    exit_code,         \* the launcher's exit code, -1 before it exits
    exc,               \* the fault saved by sys.exc_info(), "none" if none
    intr_list,         \* the list driver.registered_task_indices() returned
    mpirun_command,    \* the -np and -H arguments run() handed to the launcher
    outcome,           \* what run() did: <<"running">>, <<"raised", f>>, <<"returned", seq>>
    \* ---- the launch context (Spark job thread) and its result queue
    spark_alive,
    result_queue,
    \* ---- task_fn workers and their TaskService
    wpc,               \* Slot -> position in task_fn
    notified,          \* Slot -> notify_initial_registration_complete received
    interrupted,       \* Slot -> interrupt_waits received
    cmd_state,         \* Slot -> "none" | "started" | "terminated" (the slot's command)
    task_shutdowns,    \* Slot -> number of executions of task.shutdown()
    task_indices_on_this_host, \* Slot -> the worker's local of line 38, <<>> before
    \* ---- the external launcher
    launcher,          \* "idle" | "running" | "exited"
    \* ---- history
    first_fault,       \* the first fault raised inside run()'s try block
    short_at_deadline, \* fewer than N Registrations when the deadline passed
    barriers,          \* the registry waits of run() that returned successfully
    intr_sent,         \* Slots run() has made an interrupt_waits call to
    peer_writes,       \* Slot -> the workers that filed a peer-address report for it
    reads              \* registry reads: <<kind, path, complete>>

envVars == <<num_proc, host_hash, reach, deadline_passed>>
driverVars == <<registered, task_index_host_hash, task_to_task, driver_ranks,
                draining, driver_shutdowns, spark_job_failed>>
orchVars == <<pc, loop_idx, common_intfs, host_hashes, ranks_to_indices, exit_code,
              exc, intr_list, mpirun_command, outcome>>
sparkVars == <<spark_alive, result_queue>>
taskVars == <<wpc, notified, interrupted, cmd_state, task_shutdowns,
              task_indices_on_this_host>>
histVars == <<first_fault, short_at_deadline, barriers, intr_sent, peer_writes, reads>>
vars == <<envVars, driverVars, orchVars, sparkVars, taskVars, launcher, histVars>>

Slots == 0..(num_proc - 1)

\* ------------------------------------------------------------ list helpers
Min(S) == CHOOSE x \in S : \A y \in S : x <= y

\* list.sort() on a list of distinct integers, given as the set of its elements.
RECURSIVE SortedSeq(_)
SortedSeq(S) == IF S = {} THEN <<>>
                ELSE LET m == Min(S) IN <<m>> \o SortedSeq(S \ {m})

Range(s) == {s[k] : k \in 1..Len(s)}

\* ------------------------------------------------------------------ faults
Fault(kind, code) == [kind |-> kind, code |-> code]
NoFault == Fault("none", -1)
TimeoutFault == Fault("TimeoutFault", -1)
ConnectFault == Fault("ConnectFault", -1)
InterfaceFault == Fault("InterfaceNegotiationFault", -1)
\* Faulty variant of LaunchFault: the message does not carry the exit code.
LaunchFaultWithoutCode(code) == Fault("LaunchFault", -1)
LaunchFault(code) == Fault("LaunchFault", code)
SparkJobFault == Fault("SparkJobFailed", -1)
QueueEmpty == Fault("queue.Empty", -1)
IndexError == Fault("IndexError", -1)
KeyError == Fault("KeyError", -1)
InterruptFailed == Fault("InterruptFailed", -1)

\* ------------------------------------------- DriverService (Driver Registry)
\* All N Registrations are present (the end of state Collecting).
RegistrationComplete == registered = Slots

\* All N PeerAddressRecords are present (state Ready).
PeerComplete == DOMAIN task_to_task = Slots

\* driver.task_host_hash_indices(): host hash -> its Slots, in ascending order.
HostHashKeys == {task_index_host_hash[i] : i \in registered}
task_host_hash_indices(h) ==
    SortedSeq({i \in registered : task_index_host_hash[i] = h})

\* Faulty variant of DriverRegister: a second registration of a Slot is accepted
\* and overwrites the first.
DriverRegisterOverwrites(index, h) ==
    [accepted |-> TRUE, hashes |-> [task_index_host_hash EXCEPT ![index] = h]]

\* The registry's handler of a register request: a Slot that is already
\* registered is rejected and its Registration is left as it was.
DriverRegister(index, h) ==
    IF index \in registered
    THEN [accepted |-> FALSE, hashes |-> task_index_host_hash]
    ELSE [accepted |-> TRUE, hashes |-> [task_index_host_hash EXCEPT ![index] = h]]

\* driver.task_addresses_for_tasks(index).keys()
task_addresses_for_tasks(index) == task_to_task[index]

\* A TaskService accepts requests from its creation to task.shutdown().
TaskServiceUp(i) == wpc[i] \notin {"start", "done", "failed"}

\* task.fn_result() of the worker at Slot i.
FnResult(i) == <<"result of slot", i>>

\* A registry read, recorded with whether its data was complete and the wait
\* guarding it had returned successfully.
LogRead(kind, path) ==
    {<<kind, path, IF kind = "registration"
                   THEN RegistrationComplete /\ "registration" \in barriers
                   ELSE PeerComplete /\ "peer" \in barriers>>}

\* ------------------------------------------------------ run(): orchestrator
\* Faulty variant of Raise: the fault is swallowed and run() carries on.
RaiseSwallowed(f) ==
    /\ pc' = "clients"
    /\ UNCHANGED <<exc, mpirun_command, first_fault, peer_writes>>
\* A fault inside the try block of run(): control moves to the except clause,
\* which saves it with sys.exc_info().
Raise(f) ==
    /\ pc' = "except"
    /\ exc' = f
    /\ first_fault' = IF first_fault = NoFault THEN f ELSE first_fault

\* Faulty variant of OrchWaitRegistration: run() does not wait at line 104.
OrchNoWaitRegistration ==
    /\ pc = "wait_reg"
    /\ pc' = "clients"
    /\ UNCHANGED <<envVars, driverVars, loop_idx, mpirun_command, common_intfs,
                   host_hashes, ranks_to_indices, exit_code, exc, intr_list, outcome,
                   sparkVars, taskVars, launcher, histVars>>
\* line 104: driver.wait_for_initial_registration(tmout) returns.
OrchWaitRegistration ==
    /\ pc = "wait_reg"
    /\ RegistrationComplete
    /\ pc' = "clients"
    /\ barriers' = barriers \cup {"registration"}
    /\ UNCHANGED <<envVars, driverVars, loop_idx, mpirun_command, common_intfs,
                   host_hashes, ranks_to_indices, exit_code, exc, intr_list, outcome,
                   sparkVars, taskVars, launcher, first_fault, peer_writes,
                   short_at_deadline, intr_sent, reads>>

\* lines 105-106: a TaskClient per index from driver.task_addresses_for_driver;
\* the constructor connects to the task service.
OrchMakeClients ==
    /\ pc = "clients"
    /\ reads' = reads \cup LogRead("registration", "main")
    /\ IF \A i \in Slots : TaskServiceUp(i)
       THEN pc' = "notify" /\ UNCHANGED <<exc, first_fault>>
       ELSE Raise(ConnectFault)
    /\ loop_idx' = 0
    /\ UNCHANGED <<envVars, driverVars, common_intfs, mpirun_command, host_hashes,
                   ranks_to_indices, exit_code, intr_list, outcome, sparkVars,
                   taskVars, launcher, short_at_deadline, peer_writes, barriers,
                   intr_sent>>

\* lines 107-108: one iteration, task_client.notify_initial_registration_complete().
OrchNotify ==
    /\ pc = "notify"
    /\ IF loop_idx >= num_proc
       THEN /\ pc' = "wait_peer"
            /\ UNCHANGED <<exc, first_fault, notified, loop_idx>>
       ELSE IF TaskServiceUp(loop_idx)
       THEN /\ notified' = [notified EXCEPT ![loop_idx] = TRUE]
            /\ loop_idx' = loop_idx + 1
            /\ UNCHANGED <<pc, exc, first_fault>>
       ELSE /\ Raise(ConnectFault)
            /\ UNCHANGED <<notified, loop_idx>>
    /\ UNCHANGED <<envVars, driverVars, common_intfs, mpirun_command, host_hashes,
                   ranks_to_indices, exit_code, intr_list, outcome, sparkVars, wpc,
                   interrupted, task_indices_on_this_host, cmd_state, task_shutdowns,
                   launcher, short_at_deadline, peer_writes, barriers, intr_sent,
                   reads>>

\* line 109: driver.wait_for_task_to_task_address_updates(tmout).
OrchWaitPeer ==
    /\ pc = "wait_peer"
    /\ PeerComplete \/ deadline_passed
    /\ IF PeerComplete
       THEN /\ pc' = "common"
            /\ barriers' = barriers \cup {"peer"}
            /\ UNCHANGED <<exc, first_fault>>
       ELSE Raise(TimeoutFault) /\ UNCHANGED barriers
    /\ UNCHANGED <<envVars, driverVars, loop_idx, mpirun_command, common_intfs,
                   host_hashes, ranks_to_indices, exit_code, intr_list, outcome,
                   sparkVars, taskVars, launcher, short_at_deadline, peer_writes,
                   intr_sent, reads>>

\* lines 112-114: common_intfs starts as the keys of index 0 and is intersected
\* with the keys of index 1 .. num_proc - 1.
RECURSIVE IntersectionUpdate(_, _)
IntersectionUpdate(acc, index) ==
    IF index >= num_proc THEN acc
    ELSE IntersectionUpdate(acc \cap task_addresses_for_tasks(index), index + 1)

\* Faulty variant of CommonIntfs: the loop of lines 113-114 is missing.
CommonIntfsFirstOnly == task_addresses_for_tasks(0)
CommonIntfs == IntersectionUpdate(task_addresses_for_tasks(0), 1)

\* lines 112-117
OrchCommonIntfs ==
    /\ pc = "common"
    /\ reads' = reads \cup LogRead("peer", "main")
    /\ IF ~PeerComplete
       THEN Raise(KeyError) /\ UNCHANGED common_intfs
       ELSE /\ common_intfs' = CommonIntfs
            /\ IF common_intfs' = {}
               THEN Raise(InterfaceFault)
               ELSE pc' = "hosts" /\ UNCHANGED <<exc, first_fault>>
    /\ UNCHANGED <<envVars, driverVars, loop_idx, mpirun_command, host_hashes,
                   ranks_to_indices, exit_code, intr_list, outcome, sparkVars,
                   taskVars, launcher, short_at_deadline, peer_writes, barriers,
                   intr_sent>>

\* lines 121-122: host_hashes = keys(); host_hashes.sort()
SortedHosts == SortedSeq(HostHashKeys)

OrchSortHosts ==
    /\ pc = "hosts"
    /\ host_hashes' = SortedHosts
    /\ reads' = reads \cup LogRead("registration", "main")
    /\ pc' = "shift"
    /\ UNCHANGED <<envVars, driverVars, loop_idx, mpirun_command, common_intfs,
                   ranks_to_indices, exit_code, exc, intr_list, outcome, sparkVars,
                   taskVars, launcher, first_fault, peer_writes, short_at_deadline,
                   barriers, intr_sent>>

\* Faulty variant of ShiftCond: the last host is tested instead of the first.
ShiftCondLast(hh) == 0 \notin Range(task_host_hash_indices(hh[Len(hh)]))
\* line 123: the condition of the barrel-shift loop.
ShiftCond(hh) == 0 \notin Range(task_host_hash_indices(hh[1]))
\* Faulty variant of ShiftBody: the head is dropped, not moved to the end.
ShiftBodyDropHead(hh) == Tail(hh)
\* Faulty variant of ShiftBody: the first two hosts are swapped.
ShiftBodySwap(hh) == <<hh[2], hh[1]>> \o SubSeq(hh, 3, Len(hh))
\* line 124: host_hashes[1:] + host_hashes[:1]
ShiftBody(hh) == Tail(hh) \o <<Head(hh)>>

\* Faulty variant of OrchShift: the barrel-shift loop is missing.
OrchShiftSkipped ==
    /\ pc = "shift"
    /\ pc' = "concat"
    /\ UNCHANGED <<envVars, driverVars, loop_idx, mpirun_command, common_intfs,
                   host_hashes, ranks_to_indices, exit_code, exc, intr_list, outcome,
                   sparkVars, taskVars, launcher, histVars>>
\* lines 123-124: one evaluation of the loop condition, and the body if it holds.
OrchShift ==
    /\ pc = "shift"
    /\ IF host_hashes = <<>>
       THEN Raise(IndexError) /\ UNCHANGED host_hashes
       ELSE IF ShiftCond(host_hashes)
       THEN host_hashes' = ShiftBody(host_hashes) /\ UNCHANGED <<pc, exc, first_fault>>
       ELSE pc' = "concat" /\ UNCHANGED <<host_hashes, exc, first_fault>>
    /\ UNCHANGED <<envVars, driverVars, loop_idx, mpirun_command, common_intfs,
                   ranks_to_indices, exit_code, intr_list, outcome, sparkVars,
                   taskVars, launcher, short_at_deadline, peer_writes, barriers,
                   intr_sent, reads>>

\* lines 126-128: ranks_to_indices += the indices of each host, in list order.
RECURSIVE ConcatGroups(_)
ConcatGroups(hh) ==
    IF hh = <<>> THEN <<>>
    ELSE task_host_hash_indices(Head(hh)) \o ConcatGroups(Tail(hh))

\* lines 126-129, with driver.set_ranks_to_indices(ranks_to_indices).
OrchConcat ==
    /\ pc = "concat"
    /\ ranks_to_indices' = ConcatGroups(host_hashes)
    /\ driver_ranks' = ranks_to_indices'
    /\ pc' = "exec"
    /\ UNCHANGED <<envVars, registered, task_index_host_hash, task_to_task, draining,
                   driver_shutdowns, spark_job_failed, loop_idx, mpirun_command,
                   common_intfs, host_hashes, exit_code, exc, intr_list, outcome,
                   sparkVars, taskVars, launcher, histVars>>

\* --------------------------------------------------------- external launcher
\* Slots whose task service the launcher's per-host helper starts a command on:
\* the first index of every host of the host list.
DrivingSlots == {task_host_hash_indices(h)[1] : h \in HostHashKeys}

\* Faulty variant of HostsArgument: the hosts are listed in sorted order, not
\* in the order of the barrel shift.
HostsArgumentSorted(hh) ==
    [k \in 1..Len(hh) |->
        <<SortedHosts[k], Len(task_host_hash_indices(SortedHosts[k]))>>]

\* lines 141-142: the -H argument, one host_hash:count entry per element of
\* host_hashes.
HostsArgument(hh) ==
    [k \in 1..Len(hh) |-> <<hh[k], Len(task_host_hash_indices(hh[k]))>>]

\* lines 131-146: safe_shell_exec.execute('mpirun ...') is entered.
OrchExec ==
    /\ pc = "exec"
    /\ launcher = "idle"
    /\ launcher' = "running"
    /\ mpirun_command' = [np |-> num_proc, hosts |-> HostsArgument(host_hashes)]
    /\ reads' = reads \cup LogRead("registration", "main")
    /\ pc' = "exec_wait"
    /\ UNCHANGED <<envVars, driverVars, loop_idx, common_intfs, host_hashes,
                   ranks_to_indices, exit_code, exc, intr_list, outcome, sparkVars,
                   taskVars, first_fault, peer_writes, short_at_deadline, barriers,
                   intr_sent>>

\* The launcher's helper on a host starts the command of the host's first Slot.
LauncherStartCommand(i) ==
    /\ launcher = "running"
    /\ i \in DrivingSlots
    /\ TaskServiceUp(i)
    /\ cmd_state[i] = "none"
    /\ cmd_state' = [cmd_state EXCEPT ![i] = "started"]
    /\ UNCHANGED <<envVars, driverVars, orchVars, sparkVars, wpc, notified,
                   task_indices_on_this_host, interrupted, task_shutdowns, launcher,
                   histVars>>

\* A started command exits (also after the launcher itself has died).
LauncherCommandTerminates(i) ==
    /\ launcher # "idle"
    /\ cmd_state[i] = "started"
    /\ cmd_state' = [cmd_state EXCEPT ![i] = "terminated"]
    /\ UNCHANGED <<envVars, driverVars, orchVars, sparkVars, wpc, notified,
                   task_indices_on_this_host, interrupted, task_shutdowns, launcher,
                   histVars>>

\* The launcher exits: with 0 once every command has terminated, with a failure
\* code at any time.
LauncherExit(code) ==
    /\ launcher = "running"
    /\ code = 0 => \A i \in DrivingSlots : cmd_state[i] = "terminated"
    /\ launcher' = "exited"
    /\ exit_code' = code
    /\ UNCHANGED <<envVars, driverVars, pc, loop_idx, mpirun_command, common_intfs,
                   host_hashes, ranks_to_indices, exc, intr_list, outcome, sparkVars,
                   taskVars, histVars>>

\* lines 147-148: execute() has returned; a non-zero exit code is a fault.
OrchExitCode ==
    /\ pc = "exec_wait"
    /\ launcher = "exited"
    /\ IF exit_code # 0
       THEN Raise(LaunchFault(exit_code))
       ELSE pc' = "join" /\ UNCHANGED <<exc, first_fault>>
    /\ UNCHANGED <<envVars, driverVars, loop_idx, mpirun_command, common_intfs,
                   host_hashes, ranks_to_indices, exit_code, intr_list, outcome,
                   sparkVars, taskVars, launcher, short_at_deadline, peer_writes,
                   barriers, intr_sent, reads>>

\* ------------------------------------------------------- run(): the teardown
\* lines 150-158: driver.drain(str(exc_value)), then the list of
\* driver.registered_task_indices() the interrupt loop iterates over.
OrchDrain ==
    /\ pc = "except"
    /\ draining' = TRUE
    /\ intr_list' = SortedSeq(registered)
    /\ reads' = IF registered = {} THEN reads
                 ELSE reads \cup LogRead("registration", "teardown")
    /\ loop_idx' = 1
    /\ pc' = "interrupt"
    /\ UNCHANGED <<envVars, registered, task_index_host_hash, task_to_task, driver_ranks,
                   driver_shutdowns, spark_job_failed, common_intfs, mpirun_command,
                   host_hashes, ranks_to_indices, exit_code, exc, outcome, sparkVars,
                   taskVars, launcher, first_fault, peer_writes, short_at_deadline,
                   barriers, intr_sent>>

\* Faulty variant of InterruptFailure: the failure replaces the saved fault.
InterruptFailureRaises(f) == exc' = f
\* lines 165-166: a failed interrupt call is swallowed.
InterruptFailure(f) == UNCHANGED exc

\* Faulty variant of SparkThreadIsAlive: the test of line 161 is inverted.
SparkThreadIsDead == ~spark_alive
\* line 161: spark_thread.is_alive()
SparkThreadIsAlive == spark_alive

\* lines 158-166: one iteration of the interrupt loop; the call is delivered or
\* fails (the task service is gone, or the network drops it).
OrchInterrupt ==
    /\ pc = "interrupt"
    /\ IF loop_idx > Len(intr_list)
       THEN /\ pc' = "join"
            /\ UNCHANGED <<loop_idx, interrupted, exc, reads, intr_sent>>
       ELSE /\ loop_idx' = loop_idx + 1
            /\ pc' = pc
            /\ IF SparkThreadIsAlive
               THEN /\ reads' = reads \cup LogRead("registration", "teardown")
                    /\ intr_sent' = intr_sent \cup {intr_list[loop_idx]}
                    /\ \E delivered \in BOOLEAN :
                         IF delivered /\ TaskServiceUp(intr_list[loop_idx])
                         THEN /\ interrupted' =
                                   [interrupted EXCEPT ![intr_list[loop_idx]] = TRUE]
                              /\ UNCHANGED exc
                         ELSE /\ InterruptFailure(InterruptFailed)
                              /\ UNCHANGED interrupted
               ELSE UNCHANGED <<interrupted, exc, reads, intr_sent>>
    /\ UNCHANGED <<envVars, driverVars, common_intfs, mpirun_command, host_hashes,
                   ranks_to_indices, exit_code, intr_list, outcome, sparkVars, wpc,
                   notified, task_indices_on_this_host, cmd_state, task_shutdowns,
                   launcher, first_fault, peer_writes, short_at_deadline, barriers>>

\* Faulty variant of OrchJoin: the orchestrator goes on without waiting for the
\* launch context to end.
OrchJoinWithoutWaiting ==
    /\ pc = "join"
    /\ pc' = "shutdown"
    /\ UNCHANGED <<envVars, driverVars, loop_idx, mpirun_command, common_intfs,
                   host_hashes, ranks_to_indices, exit_code, exc, intr_list, outcome,
                   sparkVars, taskVars, launcher, histVars>>

\* line 171: spark_thread.join() returns once the thread has ended.
OrchJoin ==
    /\ pc = "join"
    /\ ~spark_alive
    /\ pc' = "shutdown"
    /\ UNCHANGED <<envVars, driverVars, loop_idx, mpirun_command, common_intfs,
                   host_hashes, ranks_to_indices, exit_code, exc, intr_list, outcome,
                   sparkVars, taskVars, launcher, histVars>>

\* line 172, and line 169 when a fault is pending: driver.shutdown(), then the
\* saved fault leaves run().
OrchShutdown ==
    /\ pc = "shutdown"
    /\ driver_shutdowns' = driver_shutdowns + 1
    /\ IF exc # NoFault
       THEN pc' = "done" /\ outcome' = <<"raised", exc>>
       ELSE pc' = "check" /\ UNCHANGED outcome
    /\ UNCHANGED <<envVars, registered, task_index_host_hash, task_to_task, driver_ranks,
                   draining, spark_job_failed, loop_idx, mpirun_command, common_intfs,
                   host_hashes, ranks_to_indices, exit_code, exc, intr_list, sparkVars,
                   taskVars, launcher, histVars>>

\* Faulty variant of Reorder: the results are returned in Slot order.
ReorderSlotOrder(results, ranks) == results
\* line 179: [results[index] for index in ranks_to_indices]
Reorder(results, ranks) == [r \in 1..Len(ranks) |-> results[ranks[r] + 1]]

\* lines 175-179: check_for_spark_job_failure(), result_queue.get_nowait(), return.
OrchFinish ==
    /\ pc = "check"
    /\ pc' = "done"
    /\ IF spark_job_failed
       THEN outcome' = <<"raised", SparkJobFault>> /\ UNCHANGED result_queue
       ELSE IF result_queue = <<>>
       THEN outcome' = <<"raised", QueueEmpty>> /\ UNCHANGED result_queue
       ELSE /\ outcome' = <<"returned", Reorder(Head(result_queue), ranks_to_indices)>>
            /\ result_queue' = Tail(result_queue)
    /\ UNCHANGED <<envVars, driverVars, loop_idx, mpirun_command, common_intfs,
                   host_hashes, ranks_to_indices, exit_code, exc, intr_list,
                   spark_alive, taskVars, launcher, histVars>>

\* -------------------------------------------------------- task_fn: a worker
\* lines 49-52: a fault in task_fn (a DrainError re-raised as an Exception, or any
\* other) leaves through the finally clause, which shuts the task service down.
\* Faulty variant of TaskFail: a fault leaves task_fn without the finally clause.
TaskFailWithoutShutdown(i) ==
    /\ wpc' = [wpc EXCEPT ![i] = "failed"]
    /\ UNCHANGED task_shutdowns

TaskFail(i) ==
    /\ wpc' = [wpc EXCEPT ![i] = "failed"]
    /\ task_shutdowns' = [task_shutdowns EXCEPT ![i] = @ + 1]

TaskGoto(i, where) ==
    /\ wpc' = [wpc EXCEPT ![i] = where]
    /\ UNCHANGED task_shutdowns

\* lines 26-30: the task service is created and the Slot registers; a draining
\* registry refuses, and a Slot is recorded at most once.
TaskRegister(i) ==
    /\ wpc[i] = "start"
    /\ LET reply == DriverRegister(i, host_hash[i])
       IN IF draining \/ ~reply.accepted
          THEN TaskFail(i) /\ UNCHANGED <<registered, task_index_host_hash>>
          ELSE /\ TaskGoto(i, "wait_reg")
               /\ registered' = registered \cup {i}
               /\ task_index_host_hash' = reply.hashes
    /\ UNCHANGED <<envVars, task_to_task, driver_ranks, draining, driver_shutdowns,
                   spark_job_failed, orchVars, sparkVars, notified,
                   task_indices_on_this_host, interrupted, cmd_state, launcher,
                   histVars>>

\* Faulty variant of TaskWaitRegistration: an interrupted or timed-out wait
\* returns as if the notification had arrived.
TaskWaitRegistrationProceeds(i) ==
    /\ wpc[i] = "wait_reg"
    /\ notified[i] \/ interrupted[i] \/ deadline_passed
    /\ TaskGoto(i, "probe")
    /\ UNCHANGED <<envVars, driverVars, orchVars, sparkVars, notified,
                   task_indices_on_this_host, interrupted, cmd_state, launcher,
                   histVars>>
\* line 31: task.wait_for_initial_registration(tmout) returns on the
\* notification, or fails on an interrupt or on the deadline.
TaskWaitRegistration(i) ==
    /\ wpc[i] = "wait_reg"
    /\ notified[i] \/ interrupted[i] \/ deadline_passed
    /\ IF notified[i] THEN TaskGoto(i, "probe") ELSE TaskFail(i)
    /\ UNCHANGED <<envVars, driverVars, orchVars, sparkVars, notified,
                   task_indices_on_this_host, interrupted, cmd_state, launcher,
                   histVars>>

\* Faulty variant of NextTaskIndex: the ring is walked backwards.
PreviousTaskIndex(index) == (index + num_proc - 1) % num_proc

\* line 34
NextTaskIndex(index) == (index + 1) % num_proc

\* line 38: driver_client.task_host_hash_indices(host_hash.host_hash())
HostIndicesOf(index) == task_host_hash_indices(host_hash[index])

\* Faulty variant of DrivesHost: the last Slot of the host takes the branch.
DrivesHostLast(index) ==
    HostIndicesOf(index)[Len(HostIndicesOf(index))] = index

\* line 39: the Slot that waits for the command itself is the first of its host.
DrivesHost(index) == HostIndicesOf(index)[1] = index

\* lines 34-39: resolve the ring successor, connect to it, report the addresses
\* it is reachable on keyed by its index, then look up the Slots of this host.
TaskProbe(i) ==
    /\ wpc[i] = "probe"
    /\ reads' = IF draining THEN reads
                 ELSE reads \cup LogRead("registration", "worker")
    /\ IF draining \/ ~TaskServiceUp(NextTaskIndex(i))
       THEN /\ TaskFail(i)
            /\ UNCHANGED <<task_to_task, peer_writes, task_indices_on_this_host>>
       ELSE /\ task_to_task' =
                 [j \in DOMAIN task_to_task \cup {NextTaskIndex(i)} |->
                    IF j = NextTaskIndex(i) THEN reach[j] ELSE task_to_task[j]]
            /\ peer_writes' = [peer_writes EXCEPT ![NextTaskIndex(i)] = Append(@, i)]
            /\ task_indices_on_this_host' =
                 [task_indices_on_this_host EXCEPT ![i] = HostIndicesOf(i)]
            /\ IF DrivesHost(i)
               THEN TaskGoto(i, "wait_start")
               ELSE TaskGoto(i, "connect_first")
    /\ UNCHANGED <<envVars, registered, task_index_host_hash, driver_ranks, draining,
                   driver_shutdowns, spark_job_failed, orchVars, sparkVars, notified,
                   interrupted, cmd_state, launcher, first_fault, short_at_deadline,
                   barriers, intr_sent>>

\* Faulty variant of TaskWaitCommandStart: the wait has no deadline.
TaskWaitCommandStartWithoutDeadline(i) ==
    /\ wpc[i] = "wait_start"
    /\ cmd_state[i] # "none" \/ interrupted[i]
    /\ IF cmd_state[i] # "none" THEN TaskGoto(i, "wait_term") ELSE TaskFail(i)
    /\ UNCHANGED <<envVars, driverVars, orchVars, sparkVars, notified,
                   task_indices_on_this_host, interrupted, cmd_state, launcher,
                   histVars>>

\* line 41: task.wait_for_command_start(tmout)
TaskWaitCommandStart(i) ==
    /\ wpc[i] = "wait_start"
    /\ cmd_state[i] # "none" \/ interrupted[i] \/ deadline_passed
    /\ IF cmd_state[i] # "none" THEN TaskGoto(i, "wait_term") ELSE TaskFail(i)
    /\ UNCHANGED <<envVars, driverVars, orchVars, sparkVars, notified,
                   task_indices_on_this_host, interrupted, cmd_state, launcher,
                   histVars>>

\* line 42: task.wait_for_command_termination(), which has no deadline.
TaskWaitCommandTermination(i) ==
    /\ wpc[i] = "wait_term"
    /\ cmd_state[i] = "terminated" \/ interrupted[i]
    /\ IF cmd_state[i] = "terminated" THEN TaskGoto(i, "result") ELSE TaskFail(i)
    /\ UNCHANGED <<envVars, driverVars, orchVars, sparkVars, notified,
                   task_indices_on_this_host, interrupted, cmd_state, launcher,
                   histVars>>

\* line 45: task_indices_on_this_host[0], the first Slot of the host of Slot i.
FirstOnHost(i) == task_indices_on_this_host[i][1]

\* lines 45-46: the addresses of the host's first Slot, and a client to it.
TaskConnectFirst(i) ==
    /\ wpc[i] = "connect_first"
    /\ reads' = IF draining THEN reads
                 ELSE reads \cup LogRead("registration", "worker")
    /\ IF draining \/ ~TaskServiceUp(FirstOnHost(i))
       THEN TaskFail(i)
       ELSE TaskGoto(i, "wait_first")
    /\ UNCHANGED <<envVars, driverVars, orchVars, sparkVars, notified,
                   task_indices_on_this_host, interrupted, cmd_state, launcher,
                   first_fault, peer_writes, short_at_deadline, barriers, intr_sent>>

\* line 47: first_task_client.wait_for_command_termination(); it fails when the
\* first Slot's waits are interrupted or its service goes away before the
\* command has terminated.
TaskWaitFirst(i) ==
    /\ wpc[i] = "wait_first"
    /\ \/ cmd_state[FirstOnHost(i)] = "terminated"
       \/ interrupted[FirstOnHost(i)]
       \/ ~TaskServiceUp(FirstOnHost(i))
    /\ IF cmd_state[FirstOnHost(i)] = "terminated"
       THEN TaskGoto(i, "result")
       ELSE TaskFail(i)
    /\ UNCHANGED <<envVars, driverVars, orchVars, sparkVars, notified,
                   task_indices_on_this_host, interrupted, cmd_state, launcher,
                   histVars>>

\* lines 48 and 52: return task.fn_result() through the finally clause.
TaskReturn(i) ==
    /\ wpc[i] = "result"
    /\ wpc' = [wpc EXCEPT ![i] = "done"]
    /\ task_shutdowns' = [task_shutdowns EXCEPT ![i] = @ + 1]
    /\ UNCHANGED <<envVars, driverVars, orchVars, sparkVars, notified,
                   task_indices_on_this_host, interrupted, cmd_state, launcher,
                   histVars>>

\* ------------------------------------------- run_spark: the launch context
\* lines 73-80: collect() returns the workers' results in Slot order and the
\* list is put on the result queue.
SparkCollect ==
    /\ spark_alive
    /\ \A i \in Slots : wpc[i] = "done"
    /\ result_queue' = Append(result_queue, [k \in 1..num_proc |-> FnResult(k - 1)])
    /\ spark_alive' = FALSE
    /\ UNCHANGED <<envVars, driverVars, orchVars, taskVars, launcher, histVars>>

\* Faulty variant of RunSparkRaises: the thread ends without telling the driver.
RunSparkRaisesUnnotified ==
    /\ spark_alive' = FALSE
    /\ UNCHANGED <<envVars, driverVars, orchVars, result_queue, taskVars, launcher,
                   histVars>>

\* lines 81-83: the except clause of run_spark notifies the driver and re-raises,
\* which ends the thread.
RunSparkRaises ==
    /\ spark_job_failed' = TRUE
    /\ spark_alive' = FALSE
    /\ UNCHANGED <<envVars, registered, task_index_host_hash, task_to_task, driver_ranks,
                   draining, driver_shutdowns, orchVars, result_queue, taskVars,
                   launcher, histVars>>

\* lines 81-83: the job fails once a worker has failed.
SparkFail ==
    /\ spark_alive
    /\ \E i \in Slots : wpc[i] = "failed"
    /\ RunSparkRaises

\* lines 73-83: the Spark job fails for a reason of its own, whatever the workers
\* are doing.
SparkAbort ==
    /\ spark_alive
    /\ RunSparkRaises

\* ----------------------------------------------------------------- deadline
\* start_timeout_at passes: a registry wait of run() that is blocked on data
\* still incomplete fails at once with a timeout.
\* The resource manager runs the entry point of a failed Slot again, on host h,
\* for as long as the fleet job has not been given up.
TaskRetry(i, h) ==
    /\ spark_alive
    /\ wpc[i] = "failed"
    /\ wpc' = [wpc EXCEPT ![i] = "start"]
    /\ host_hash' = [host_hash EXCEPT ![i] = h]
    /\ notified' = [notified EXCEPT ![i] = FALSE]
    /\ interrupted' = [interrupted EXCEPT ![i] = FALSE]
    /\ task_shutdowns' = [task_shutdowns EXCEPT ![i] = 0]
    /\ task_indices_on_this_host' = [task_indices_on_this_host EXCEPT ![i] = <<>>]
    /\ UNCHANGED <<num_proc, reach, deadline_passed, driverVars, orchVars, sparkVars,
                   cmd_state, launcher, histVars>>

DeadlinePass ==
    /\ ~deadline_passed
    /\ deadline_passed' = TRUE
    /\ short_at_deadline' = ~RegistrationComplete
    /\ IF \/ pc = "wait_reg" /\ ~RegistrationComplete
          \/ pc = "wait_peer" /\ ~PeerComplete
       THEN Raise(TimeoutFault)
       ELSE UNCHANGED <<pc, exc, first_fault>>
    /\ UNCHANGED <<num_proc, host_hash, reach, driverVars, loop_idx, mpirun_command,
                   common_intfs, host_hashes, ranks_to_indices, exit_code, intr_list,
                   outcome, sparkVars, taskVars, launcher, barriers, peer_writes,
                   intr_sent, reads>>

\* -------------------------------------------------------------- specification
InitState ==
    /\ deadline_passed = FALSE
    /\ registered = {}
    /\ task_index_host_hash = [i \in Slots |-> 0]
    /\ task_to_task = [j \in {} |-> {}]
    /\ driver_ranks = <<>>
    /\ draining = FALSE
    /\ driver_shutdowns = 0
    /\ spark_job_failed = FALSE
    /\ pc = "wait_reg"
    /\ loop_idx = 0
    /\ common_intfs = {}
    /\ host_hashes = <<>>
    /\ ranks_to_indices = <<>>
    /\ exit_code = -1
    /\ exc = NoFault
    /\ intr_list = <<>>
    /\ mpirun_command = [np |-> 0, hosts |-> <<>>]
    /\ outcome = <<"running">>
    /\ spark_alive = TRUE
    /\ result_queue = <<>>
    /\ wpc = [i \in Slots |-> "start"]
    /\ notified = [i \in Slots |-> FALSE]
    /\ interrupted = [i \in Slots |-> FALSE]
    /\ cmd_state = [i \in Slots |-> "none"]
    /\ task_shutdowns = [i \in Slots |-> 0]
    /\ task_indices_on_this_host = [i \in Slots |-> <<>>]
    /\ launcher = "idle"
    /\ first_fault = NoFault
    /\ short_at_deadline = FALSE
    /\ barriers = {}
    /\ intr_sent = {}
    /\ peer_writes = [j \in Slots |-> <<>>]
    /\ reads = {}

\* The full protocol, for up to MaxProc workers.
Init ==
    /\ num_proc \in 1..MaxProc
    /\ host_hash \in [Slots -> ProtoHosts]
    /\ reach \in [Slots -> {{"eth0"}, {"lo"}}]
    /\ InitState

Next ==
    \/ OrchWaitRegistration
    \/ OrchMakeClients
    \/ OrchNotify
    \/ OrchWaitPeer
    \/ OrchCommonIntfs
    \/ OrchSortHosts
    \/ OrchShift
    \/ OrchConcat
    \/ OrchExec
    \/ OrchExitCode
    \/ OrchDrain
    \/ OrchInterrupt
    \/ OrchJoin
    \/ OrchShutdown
    \/ OrchFinish
    \/ \E i \in Slots : TaskRegister(i)
    \/ \E i \in Slots : TaskWaitRegistration(i)
    \/ \E i \in Slots : TaskProbe(i)
    \/ \E i \in Slots : TaskWaitCommandStart(i)
    \/ \E i \in Slots : TaskWaitCommandTermination(i)
    \/ \E i \in Slots : TaskConnectFirst(i)
    \/ \E i \in Slots : TaskWaitFirst(i)
    \/ \E i \in Slots : TaskReturn(i)
    \/ \E i \in Slots : LauncherStartCommand(i)
    \/ \E i \in Slots : LauncherCommandTerminates(i)
    \/ \E code \in ExitCodes : LauncherExit(code)
    \/ SparkCollect
    \/ SparkFail
    \/ DeadlinePass

Spec == Init /\ [][Next]_vars

\* The handshake up to the invocation of the launcher, without deadline or teardown,
\* for up to MaxN workers: either the host placement varies, or the interfaces.
InitRank ==
    /\ num_proc \in 1..MaxN
    /\ \/ host_hash \in [Slots -> Hosts] /\ reach = [i \in Slots |-> Intfs]
       \/ host_hash = [i \in Slots |-> 1] /\ reach \in [Slots -> SUBSET Intfs]
    /\ InitState

NextRank ==
    \/ OrchWaitRegistration
    \/ OrchMakeClients
    \/ OrchNotify
    \/ OrchWaitPeer
    \/ OrchCommonIntfs
    \/ OrchSortHosts
    \/ OrchShift
    \/ OrchConcat
    \/ OrchExec
    \/ \E i \in Slots : TaskRegister(i)
    \/ \E i \in Slots : TaskWaitRegistration(i)
    \/ \E i \in Slots : TaskProbe(i)

SpecRank == InitRank /\ [][NextRank]_vars

\* The run in which nothing fails, for up to MaxRun workers: the deadline does not
\* pass, every worker shares an interface and the launcher exits with 0.
InitRun ==
    /\ num_proc \in 1..MaxRun
    /\ host_hash \in [Slots -> ProtoHosts]
    /\ reach = [i \in Slots |-> {"eth0"}]
    /\ InitState

NextRun ==
    \/ OrchWaitRegistration
    \/ OrchMakeClients
    \/ OrchNotify
    \/ OrchWaitPeer
    \/ OrchCommonIntfs
    \/ OrchSortHosts
    \/ OrchShift
    \/ OrchConcat
    \/ OrchExec
    \/ OrchExitCode
    \/ OrchJoin
    \/ OrchShutdown
    \/ OrchFinish
    \/ \E i \in Slots : TaskRegister(i)
    \/ \E i \in Slots : TaskWaitRegistration(i)
    \/ \E i \in Slots : TaskProbe(i)
    \/ \E i \in Slots : TaskWaitCommandStart(i)
    \/ \E i \in Slots : TaskWaitCommandTermination(i)
    \/ \E i \in Slots : TaskConnectFirst(i)
    \/ \E i \in Slots : TaskWaitFirst(i)
    \/ \E i \in Slots : TaskReturn(i)
    \/ \E i \in Slots : LauncherStartCommand(i)
    \/ \E i \in Slots : LauncherCommandTerminates(i)
    \/ LauncherExit(0)
    \/ SparkCollect

SpecRun == InitRun /\ [][NextRun]_vars

\* Every run of Spec on one shared interface, with a launch context that can also
\* fail on its own at any time.
InitLaunch ==
    /\ num_proc \in 1..MaxProc
    /\ host_hash \in [Slots -> ProtoHosts]
    /\ reach = [i \in Slots |-> {"eth0"}]
    /\ InitState

NextLaunch ==
    \/ Next
    \/ SparkAbort

SpecLaunch == InitLaunch /\ [][NextLaunch]_vars

\* Spec under fair scheduling, for up to MaxLive workers that are all on one host
\* or alternate between two, and share an interface or not.
InitLive ==
    /\ num_proc \in 1..MaxLive
    /\ host_hash \in {[i \in Slots |-> 1], [i \in Slots |-> 1 + (i % 2)]}
    /\ reach \in {[i \in Slots |-> {"eth0"}],
                  [i \in Slots |-> IF i = 0 THEN {"lo"} ELSE {"eth0"}]}
    /\ InitState

\* A step of run().
OrchStep ==
    \/ OrchWaitRegistration
    \/ OrchMakeClients
    \/ OrchNotify
    \/ OrchWaitPeer
    \/ OrchCommonIntfs
    \/ OrchSortHosts
    \/ OrchShift
    \/ OrchConcat
    \/ OrchExec
    \/ OrchExitCode
    \/ OrchDrain
    \/ OrchInterrupt
    \/ OrchJoin
    \/ OrchShutdown
    \/ OrchFinish

\* A step of the task_fn invocation of Slot i.
TaskStep(i) ==
    \/ TaskRegister(i)
    \/ TaskWaitRegistration(i)
    \/ TaskProbe(i)
    \/ TaskWaitCommandStart(i)
    \/ TaskWaitCommandTermination(i)
    \/ TaskConnectFirst(i)
    \/ TaskWaitFirst(i)
    \/ TaskReturn(i)

\* The orchestrator, every worker and the launch context keep running, time
\* passes, and a started command ends once the launcher has exited.
Fairness ==
    /\ WF_vars(OrchStep)
    /\ \A i \in 0..(MaxLive - 1) : WF_vars(i \in Slots /\ TaskStep(i))
    /\ WF_vars(SparkCollect \/ SparkFail)
    /\ WF_vars(DeadlinePass)
    /\ \A i \in 0..(MaxLive - 1) :
          WF_vars(i \in Slots /\ launcher = "exited" /\ LauncherCommandTerminates(i))

SpecLive == InitLive /\ [][Next]_vars /\ Fairness

\* The handshake of SpecRank with failing workers that the resource manager runs
\* again, possibly on another host, for up to MaxProc workers.
InitRetry ==
    /\ num_proc \in 1..MaxProc
    /\ host_hash \in [Slots -> ProtoHosts]
    /\ reach = [i \in Slots |-> Intfs]
    /\ InitState

NextRetry ==
    \/ NextRank
    \/ OrchDrain
    \/ SparkFail
    \/ DeadlinePass
    \/ \E i \in Slots : \E h \in ProtoHosts : TaskRetry(i, h)

SpecRetry == InitRetry /\ [][NextRetry]_vars

\* The registration phase and the teardown after its timeout, for up to MaxN
\* workers on one host.
InitTimeout ==
    /\ num_proc \in 1..MaxN
    /\ host_hash = [i \in Slots |-> 1]
    /\ reach = [i \in Slots |-> Intfs]
    /\ InitState

NextTimeout ==
    \/ OrchWaitRegistration
    \/ OrchDrain
    \/ OrchInterrupt
    \/ OrchJoin
    \/ OrchShutdown
    \/ \E i \in Slots : TaskRegister(i)
    \/ \E i \in Slots : TaskWaitRegistration(i)
    \/ SparkFail
    \/ DeadlinePass

SpecTimeout == InitTimeout /\ [][NextTimeout]_vars

\* ============================================================== properties
IsPermutationOfSlots(seq) == Len(seq) = num_proc /\ Range(seq) = Slots

\* C1: when run() returns normally its value has exactly N elements and element r
\* is the result of the worker whose Slot is RankMapping[r]; no result is lost or
\* duplicated.
C1_ResultsInRankOrder ==
    outcome[1] = "returned" =>
        /\ Len(outcome[2]) = num_proc
        /\ IsPermutationOfSlots(driver_ranks)
        /\ \A r \in 0..(num_proc - 1) : outcome[2][r + 1] = FnResult(driver_ranks[r + 1])
        /\ \A i \in Slots :
              Cardinality({k \in 1..Len(outcome[2]) : outcome[2][k] = FnResult(i)}) = 1

\* A normal return of three or more workers whose rank order differs from Slot order.
C1_Witness ==
    /\ outcome[1] = "returned"
    /\ num_proc >= 3
    /\ \E r \in 1..Len(driver_ranks) : driver_ranks[r] # r - 1

\* C2: a fault raised inside the try block of run() is the fault run() raises,
\* unchanged, after drain, interrupt loop, join and shutdown; a failing interrupt
\* call never replaces it.
C2_FirstFaultReraised ==
    (pc = "done" /\ first_fault # NoFault) =>
        /\ outcome = <<"raised", first_fault>>
        /\ outcome[2].kind \notin {"DrainFault", "InterruptFailed"}
        /\ draining
        /\ ~spark_alive
        /\ driver_shutdowns = 1

\* run() has raised after an interrupt call to every Slot, each of which failed.
C2_Witness ==
    /\ pc = "done"
    /\ first_fault # NoFault
    /\ outcome[1] = "raised"
    /\ num_proc >= 2
    /\ intr_sent = Slots
    /\ \A i \in Slots : ~interrupted[i]

\* C3: the RankMapping computed after both barriers is a permutation of [0, N).
C3_RankMappingIsPermutation ==
    /\ driver_ranks # <<>> => IsPermutationOfSlots(driver_ranks)
    /\ ranks_to_indices # <<>> => IsPermutationOfSlots(ranks_to_indices)
    /\ pc = "exec" => driver_ranks # <<>> /\ barriers = {"registration", "peer"}

\* A RankMapping of four Slots on more than one host, after a barrel shift.
C3_Witness ==
    /\ driver_ranks # <<>>
    /\ num_proc >= 4
    /\ Cardinality(HostHashKeys) >= 2
    /\ host_hashes # SortedHosts

\* C4: Slot 0 is at position 0 of the RankMapping.
C4_SlotZeroIsRankZero ==
    /\ driver_ranks # <<>> => driver_ranks[1] = 0
    /\ ranks_to_indices # <<>> => ranks_to_indices[1] = 0

\* A RankMapping where Slot 0 is not on the host that sorts first and a lower
\* host holds other Slots.
C4_Witness ==
    /\ driver_ranks # <<>>
    /\ num_proc >= 3
    /\ host_hash[0] # Min(HostHashKeys)

\* The reference construction of C5 in closed form: hosts not below the host of
\* Slot 0 come first in ascending order, then the hosts below it in ascending
\* order, and within a host the Slots ascend.
RefWrap(s) == IF host_hash[s] >= host_hash[0] THEN 0 ELSE 1
RefBefore(s, t) ==
    \/ RefWrap(s) < RefWrap(t)
    \/ RefWrap(s) = RefWrap(t) /\ host_hash[s] < host_hash[t]
    \/ host_hash[s] = host_hash[t] /\ s < t
RefRankMapping ==
    [r \in 1..num_proc |->
        CHOOSE s \in Slots : Cardinality({t \in Slots : RefBefore(t, s)}) = r - 1]

ScenarioZeroOnFirstHost ==
    /\ num_proc = 4
    /\ host_hash[0] = host_hash[2] /\ host_hash[1] = host_hash[3]
    /\ host_hash[0] < host_hash[1]
ScenarioZeroOnSecondHost ==
    /\ num_proc = 4
    /\ host_hash[0] = host_hash[2] /\ host_hash[1] = host_hash[3]
    /\ host_hash[1] < host_hash[0]

\* C5: the RankMapping equals the reference construction (group by host, sort the
\* hosts, rotate left until the host of Slot 0 is first, concatenate the groups in
\* ascending Slot order); both N=4 scenarios give [0,2,1,3].
C5_RankMappingIsReference ==
    driver_ranks # <<>> =>
        /\ driver_ranks = RefRankMapping
        /\ ScenarioZeroOnFirstHost => driver_ranks = <<0, 2, 1, 3>>
        /\ ScenarioZeroOnSecondHost => driver_ranks = <<0, 2, 1, 3>>

\* The second scenario, HostA={1,3}, HostB={0,2}, with its RankMapping stored.
C5_Witness ==
    /\ ScenarioZeroOnSecondHost
    /\ driver_ranks = <<0, 2, 1, 3>>

\* The host hashes in ascending order, defined without the sort.
RefSortedHosts ==
    CHOOSE q \in [1..Cardinality(HostHashKeys) -> HostHashKeys] :
        \A a, b \in DOMAIN q : a < b => q[a] < q[b]

IsRotationOf(hh, ref) ==
    /\ Len(hh) = Len(ref)
    /\ \E k \in 0..(Len(ref) - 1) :
          \A a \in 1..Len(ref) : hh[a] = ref[((a - 1 + k) % Len(ref)) + 1]

\* C6: the barrel shift is a cyclic rotation of the sorted host list (throughout
\* the loop), it ends with the host of Slot 0 first, and the rule applied to its
\* result rotates no further.
C6_BarrelShiftIsRotation ==
    /\ pc = "shift" => IsRotationOf(host_hashes, RefSortedHosts)
    /\ pc \in {"concat", "exec", "exec_wait"} =>
          /\ IsRotationOf(host_hashes, RefSortedHosts)
          /\ host_hashes[1] = host_hash[0]
          /\ ~ShiftCond(host_hashes)

\* Three hosts, rotated twice: Slot 0 is on the host that sorts last.
C6_Witness ==
    /\ pc = "concat"
    /\ Len(host_hashes) >= 3
    /\ host_hashes[1] = RefSortedHosts[Len(host_hashes)]

\* The set intersection of the interface names of all N PeerAddressRecords.
ExactIntersection == {x \in Intfs : \A i \in Slots : x \in task_to_task[i]}

\* Lines 112-117 have been executed on complete data.
NegotiationDone == <<"peer", "main", TRUE>> \in reads

\* C7: common_intfs is exactly the intersection over all N Slots; if it is empty
\* the interface-negotiation fault is raised, no RankMapping is stored and the
\* launcher is not invoked; if it is not empty no fault is raised there.
C7_CommonInterfaces ==
    NegotiationDone =>
        /\ common_intfs = ExactIntersection
        /\ ExactIntersection = {} =>
              /\ first_fault = InterfaceFault
              /\ pc \notin {"hosts", "shift", "concat", "exec", "exec_wait"}
              /\ host_hashes = <<>>
              /\ ranks_to_indices = <<>>
              /\ driver_ranks = <<>>
              /\ launcher = "idle"
        /\ ExactIntersection # {} => first_fault # InterfaceFault

\* One worker reported no interface at all, another reported every interface,
\* and negotiation faulted.
C7_Witness ==
    /\ NegotiationDone
    /\ num_proc >= 3
    /\ \E i, j \in Slots : task_to_task[i] = {} /\ task_to_task[j] = Intfs
    /\ first_fault = InterfaceFault

\* C8: no worker is notified (or leaves its registration wait successfully)
\* before all N Slots have registered and the initial-registration wait has
\* returned; the launcher is invoked only after both barriers completed.
C8_BarriersBeforeNotifyAndLaunch ==
    /\ \A i \in Slots :
          (notified[i] \/ wpc[i] \in {"probe", "wait_start", "wait_term",
                                      "connect_first", "wait_first", "result", "done"})
             => RegistrationComplete /\ "registration" \in barriers
    /\ launcher # "idle" =>
          /\ RegistrationComplete
          /\ PeerComplete
          /\ barriers = {"registration", "peer"}

\* The launcher runs for two or more workers, all of them notified.
C8_Witness ==
    /\ launcher = "running"
    /\ num_proc >= 2
    /\ \A i \in Slots : notified[i]

\* C9 as stated: every registry read, on every path, is of complete data after
\* the wait guarding it returned successfully.
C9_EveryReadAfterBarrier == \A rd \in reads : rd[3]

\* C9, amended: outside the teardown path every Registration read, and on every
\* path every PeerAddressRecord read, is of complete data after the wait guarding
\* it returned successfully.
C9_ReadsOutsideTeardownAfterBarrier ==
    \A rd \in reads : (rd[1] = "peer" \/ rd[2] # "teardown") => rd[3]

\* The orchestrator and a worker have read Registrations, the orchestrator has
\* read the PeerAddressRecords, and the teardown has read Registrations too.
C9_Witness ==
    /\ <<"registration", "main", TRUE>> \in reads
    /\ <<"registration", "worker", TRUE>> \in reads
    /\ <<"peer", "main", TRUE>> \in reads
    /\ \E rd \in reads : rd[2] = "teardown"

\* C10: if fewer than N workers had registered when the deadline passed, the
\* initial-registration wait raises TimeoutFault, which is what run() raises, and
\* no host ordering or RankMapping is computed or stored and the launcher is
\* never invoked.
C10_TimeoutComputesNothing ==
    short_at_deadline =>
        /\ first_fault = TimeoutFault
        /\ "registration" \notin barriers
        /\ pc \in {"except", "interrupt", "join", "shutdown", "done"}
        /\ host_hashes = <<>>
        /\ ranks_to_indices = <<>>
        /\ driver_ranks = <<>>
        /\ launcher = "idle"
        /\ pc = "done" => outcome = <<"raised", TimeoutFault>>

\* run() has raised after the deadline passed with some, but not all, workers
\* registered.
C10_Witness ==
    /\ short_at_deadline
    /\ pc = "done"
    /\ registered # {}
    /\ registered # Slots

\* The interrupt loop is over.
AfterInterruptLoop == pc \in {"join", "shutdown", "done"}

\* The Slots the interrupt loop made a call to are a prefix of its list, and the
\* loop stopped calling only once the launch context had ended.
InterruptedWhileAlive ==
    \E k \in 0..Len(intr_list) :
        /\ intr_sent = {intr_list[j] : j \in 1..k}
        /\ k < Len(intr_list) => ~spark_alive

\* C11 as stated: after a timeout of the registration wait every registered
\* worker has been sent an interrupt and the launcher is never invoked.
C11_AllRegisteredInterrupted ==
    (short_at_deadline /\ AfterInterruptLoop) =>
        /\ first_fault = TimeoutFault
        /\ launcher = "idle"
        /\ registered \subseteq intr_sent

\* C11, amended: after a timeout of the registration wait the launcher is never
\* invoked, the interrupt loop runs over every registered worker, and it sends
\* an interrupt to each of them for as long as the launch context is alive; once
\* the launch context has ended the remaining workers are sent none.
C11_RegisteredInterruptedWhileAlive ==
    (short_at_deadline /\ AfterInterruptLoop) =>
        /\ first_fault = TimeoutFault
        /\ launcher = "idle"
        /\ Range(intr_list) = registered
        /\ InterruptedWhileAlive

\* Worker 2 of 4 never registered; run() raised after interrupting 0, 1 and 3.
C11_Witness ==
    /\ num_proc = 4
    /\ pc = "done"
    /\ short_at_deadline
    /\ registered = {0, 1, 3}
    /\ intr_sent = {0, 1, 3}
    /\ outcome = <<"raised", TimeoutFault>>

\* The launcher has exited with a non-zero code.
LauncherFailed == exit_code > 0

\* C12 as stated: a non-zero launcher exit makes run() raise a LaunchFault that
\* carries the code and never return results, after a drain and an interrupt for
\* every registered worker.
C12_LaunchFaultAfterAllInterrupted ==
    LauncherFailed =>
        /\ outcome[1] # "returned"
        /\ pc = "done" =>
              /\ outcome = <<"raised", [kind |-> "LaunchFault", code |-> exit_code]>>
              /\ draining
              /\ registered \subseteq intr_sent

\* C12, amended: a non-zero launcher exit makes run() raise a LaunchFault that
\* carries the code and never return results; before the fault reaches the
\* caller the registry is drained and the interrupt loop has run over every
\* registered worker, sending an interrupt to each for as long as the launch
\* context is alive.
C12_LaunchFaultAfterTeardown ==
    LauncherFailed =>
        /\ outcome[1] # "returned"
        /\ pc = "done" =>
              /\ outcome = <<"raised", [kind |-> "LaunchFault", code |-> exit_code]>>
              /\ draining
              /\ Range(intr_list) = registered
              /\ InterruptedWhileAlive

\* The launcher exited with 137 and run() raised after interrupting both workers.
C12_Witness ==
    /\ num_proc = 2
    /\ exit_code = 137
    /\ pc = "done"
    /\ outcome = <<"raised", [kind |-> "LaunchFault", code |-> 137]>>
    /\ draining
    /\ intr_sent = {0, 1}

\* C13: whenever run() goes on past its try statement the launch context has
\* been joined before the Driver Registry is shut down, and the shutdown is
\* executed exactly once; on a fault path the registry is drained before the
\* interrupt loop, the loop is over before the join, and the fault is re-raised
\* only after the shutdown.
C13_JoinThenShutdownOnce ==
    /\ driver_shutdowns = IF pc \in {"check", "done"} THEN 1 ELSE 0
    /\ pc \in {"shutdown", "check", "done"} => ~spark_alive
    /\ intr_sent # {} => draining
    /\ exc # NoFault =>
          /\ pc \in {"interrupt", "join", "shutdown", "done"} => draining
          /\ pc \in {"join", "shutdown", "done"} => loop_idx > Len(intr_list)
    /\ exc = NoFault => ~draining /\ intr_sent = {}
    /\ outcome[1] \in {"raised", "returned"} => pc = "done"

\* run() re-raised a fault after interrupting a worker, joining the launch
\* context and shutting the registry down.
C13_Witness ==
    /\ pc = "done"
    /\ exc # NoFault
    /\ outcome = <<"raised", exc>>
    /\ intr_sent # {}
    /\ draining
    /\ ~spark_alive
    /\ driver_shutdowns = 1

\* run() returned results after joining the launch context and shutting the
\* registry down.
C13_WitnessReturned ==
    /\ pc = "done"
    /\ outcome[1] = "returned"
    /\ ~spark_alive
    /\ driver_shutdowns = 1

\* No Slot is twice in a host group, in two host groups, or twice in the
\* RankMapping.
NoSlotTwice ==
    /\ \A i \in registered :
          Cardinality({<<h, k>> \in HostHashKeys \X (1..num_proc) :
                          /\ k <= Len(task_host_hash_indices(h))
                          /\ task_host_hash_indices(h)[k] = i}) = 1
    /\ \A r1, r2 \in 1..Len(driver_ranks) :
          driver_ranks[r1] = driver_ranks[r2] => r1 = r2

\* A step keeps every Registration as it is, and a worker whose Slot is already
\* registered leaves its registration call only by failing.
RegistrationKept ==
    /\ \A i \in registered :
          /\ i \in registered'
          /\ task_index_host_hash'[i] = task_index_host_hash[i]
          /\ (wpc[i] = "start" /\ wpc'[i] # "start") => wpc'[i] = "failed"
    /\ NoSlotTwice'

InBranch(i) == wpc[i] \in {"wait_start", "wait_term", "connect_first", "wait_first"}

\* Worker i is in the driving branch of line 39.
Driving(i) == wpc[i] \in {"wait_start", "wait_term"}

\* C15: in every host group the first Slot of the group's list, and no other,
\* takes the driving branch, every other Slot of the group waits on that Slot,
\* the workers of a host hold the same list, which is the registry's list of the
\* host, and its first Slot is the one the launcher starts the command on.
C15_OneDrivingSlotPerHost ==
    /\ \A i \in Slots : InBranch(i) =>
          /\ task_indices_on_this_host[i] = task_host_hash_indices(host_hash[i])
          /\ FirstOnHost(i) \in DrivingSlots
          /\ host_hash[FirstOnHost(i)] = host_hash[i]
          /\ Driving(i) <=> FirstOnHost(i) = i
    /\ \A i, j \in Slots :
          (InBranch(i) /\ InBranch(j) /\ host_hash[i] = host_hash[j]) =>
              /\ FirstOnHost(i) = FirstOnHost(j)
              /\ (Driving(i) /\ Driving(j)) => i = j
    /\ \A i \in Slots : (cmd_state[i] # "none" /\ InBranch(i)) => Driving(i)

\* Slots 0 and 2 share a host and Slot 1 has its own: 0 and 1 drive and 2 waits
\* on 0.
C15_Witness ==
    /\ num_proc = 3
    /\ host_hash = [i \in Slots |-> IF i = 1 THEN 2 ELSE 1]
    /\ wpc = [i \in Slots |-> IF i = 2 THEN "wait_first" ELSE "wait_term"]
    /\ FirstOnHost(2) = 0
    /\ cmd_state[0] = "started"

\* The invocation of task_fn for Slot i has ended.
TaskEnded(i) == wpc[i] \in {"done", "failed"}

\* C16: task.shutdown() has been executed exactly once by every worker
\* invocation that has ended, by a normal return or by any fault, and not at all
\* by one that is still running.
C16_TaskShutdownExactlyOnce ==
    \A i \in Slots : task_shutdowns[i] = IF TaskEnded(i) THEN 1 ELSE 0

\* One worker returned its result and another failed; each shut its task service
\* down once.
C16_Witness ==
    /\ num_proc = 2
    /\ wpc[0] = "done"
    /\ wpc[1] = "failed"
    /\ task_shutdowns = [i \in Slots |-> 1]

\* Worker i is past the ring probe of lines 34-37.
ProbeCompleted(i) ==
    wpc[i] \in {"wait_start", "wait_term", "connect_first", "wait_first", "result", "done"}

\* C17: a peer-address report is filed by worker i under the key (i + 1) mod N
\* only, no key is written twice, the registry holds a PeerAddressRecord exactly
\* for the keys written, and once all N workers are past the probe it holds
\* exactly one for every Slot, each written once; for N = 1 the worker probes
\* itself.
C17_OnePeerRecordPerSlot ==
    /\ \A j \in Slots :
          /\ Len(peer_writes[j]) <= 1
          /\ peer_writes[j] # <<>> => j = (peer_writes[j][1] + 1) % num_proc
    /\ DOMAIN task_to_task = {j \in Slots : peer_writes[j] # <<>>}
    /\ \A i \in Slots :
          ProbeCompleted(i) => peer_writes[(i + 1) % num_proc] = <<i>>
    /\ (\A i \in Slots : ProbeCompleted(i)) =>
          /\ DOMAIN task_to_task = Slots
          /\ \A j \in Slots : Len(peer_writes[j]) = 1

\* Four workers have all completed the probe.
C17_Witness ==
    /\ num_proc = 4
    /\ \A i \in Slots : ProbeCompleted(i)
    /\ peer_writes = [j \in Slots |-> <<(j + 3) % 4>>]
    /\ DOMAIN task_to_task = Slots

\* A single worker has probed itself.
C17_WitnessSelfProbe ==
    /\ num_proc = 1
    /\ ProbeCompleted(0)
    /\ peer_writes[0] = <<0>>
    /\ DOMAIN task_to_task = {0}

\* C18: once the launch context has failed run() never returns results and ends
\* by raising; the orchestrator reaches the read of the result queue only after
\* the launch context has ended successfully, when the queue holds exactly one
\* result collection, so that get_nowait() never finds it empty.
C18_ResultsOnlyAfterSuccessfulLaunch ==
    /\ Len(result_queue) <= 1
    /\ spark_job_failed =>
          /\ outcome[1] # "returned"
          /\ pc = "done" => outcome[1] = "raised"
    /\ (pc = "check" /\ ~spark_job_failed) =>
          /\ ~spark_alive
          /\ Len(result_queue) = 1
    /\ outcome # <<"raised", QueueEmpty>>
    /\ outcome[1] = "returned" =>
          /\ ~spark_job_failed
          /\ ~spark_alive
          /\ result_queue = <<>>
          /\ Len(outcome[2]) = num_proc

\* The handshake succeeded and the launcher exited with 0, but the launch
\* context had failed: run() raised after its try statement.
C18_Witness ==
    /\ pc = "done"
    /\ exit_code = 0
    /\ exc = NoFault
    /\ spark_job_failed
    /\ outcome = <<"raised", SparkJobFault>>

\* The orchestrator read the one result collection and returned it.
C18_WitnessReturned ==
    /\ pc = "done"
    /\ num_proc = 2
    /\ outcome[1] = "returned"
    /\ result_queue = <<>>

\* run() has raised after joining the launch context and shutting the registry
\* down, and no worker invocation is left running.
TornDown ==
    /\ pc = "done"
    /\ outcome[1] = "raised"
    /\ ~spark_alive
    /\ driver_shutdowns = 1
    /\ \A i \in Slots : TaskEnded(i)

C19_WitnessNotDelivered ==
    /\ TornDown
    /\ exit_code = 137
    /\ \E i \in Slots : i \in intr_sent /\ ~interrupted[i] /\ cmd_state[i] = "terminated"

\* The number of processes the first k entries of the host list take.
RECURSIVE ProcessesUpTo(_)
ProcessesUpTo(k) ==
    IF k = 0 THEN 0 ELSE ProcessesUpTo(k - 1) + mpirun_command.hosts[k][2]

\* The host on which a launcher that fills the hosts in the listed order places
\* rank r.
PlacedHost(r) ==
    LET k == CHOOSE n \in 1..Len(mpirun_command.hosts) :
                 ProcessesUpTo(n - 1) <= r /\ r < ProcessesUpTo(n)
    IN mpirun_command.hosts[k][1]

\* C20: the host list handed to the launcher has exactly one entry per host
\* group, in the rotated host order the RankMapping was built from, each with the
\* number of Slots of the group; the counts sum to N, the -np argument; and rank
\* r is placed on the host of the Slot RankMapping[r].
C20_HostListMatchesRankMapping ==
    launcher # "idle" =>
        /\ mpirun_command.np = num_proc
        /\ Len(mpirun_command.hosts) = Cardinality(HostHashKeys)
        /\ \A k \in 1..Len(mpirun_command.hosts) :
              /\ mpirun_command.hosts[k][1] = host_hashes[k]
              /\ mpirun_command.hosts[k][2] =
                    Cardinality({i \in Slots : host_hash[i] = mpirun_command.hosts[k][1]})
        /\ {mpirun_command.hosts[k][1] : k \in 1..Len(mpirun_command.hosts)} =
              {host_hash[i] : i \in Slots}
        /\ ProcessesUpTo(Len(mpirun_command.hosts)) = num_proc
        /\ \A r \in 0..(num_proc - 1) : PlacedHost(r) = host_hash[driver_ranks[r + 1]]

\* Slots 1 and 3 are on host 1 and Slots 0 and 2 on host 2: the launcher is
\* handed host 2 first, with two processes each.
C20_Witness ==
    /\ num_proc = 4
    /\ host_hash = [i \in Slots |-> IF i \in {1, 3} THEN 1 ELSE 2]
    /\ launcher = "running"
    /\ mpirun_command = [np |-> 4, hosts |-> <<<<2, 2>>, <<1, 2>>>>]
    /\ driver_ranks = <<0, 2, 1, 3>>

====
